---- MODULE Spec2Model ----
(***************************************************************************)
(* The meta-controller supervisors of controller/generic/metacontroller.go *)
(* (CRDBasedMetaController and ConfigBasedMetaController) as a state       *)
(* machine.  A behaviour is one life of one supervisor: the variant is     *)
(* chosen in Init and never changes.                                       *)
(***************************************************************************)
EXTENDS Integers, Sequences, FiniteSets, TLC

\* ------------------------------------------------------------------ bounds

\* Number of add/update/delete events the GenericController informer receives.
MaxEvents == 3

\* Longest list of GenericController configs given to the Config variant.
MaxConfigs == 3

\* WaitTimeoutForCondition, counted in units of WaitIntervalForCondition.
TimeoutTicks == 2

\* Number of events the informer receives in the behaviours that are checked
\* for what eventually happens.
MaxLiveEvents == 2

\* ------------------------------------------------------------------ values

\* Definition keys "{namespace}/{name}".
Keys == {"ns/a", "ns/b"}

\* Resources a definition can watch; discovery resolves them or not.
Resources == {"r1", "r2"}

\* GenericControllerSpec values.  attachments is "nil" or "empty" (a nil and
\* an empty slice) or names an attachment list; the two empty forms differ
\* in memory and are the same to a semantic comparison.
Specs ==
  {[watch |-> "r1", attachments |-> "nil"],
   [watch |-> "r1", attachments |-> "empty"],
   [watch |-> "r2", attachments |-> "nil"]}

\* No definition under a key of the lister.
NotFound == [watch |-> "none", attachments |-> "nil"]

\* No watch controller under a key of the WatchControllers map.
NoWC == 0

\* GenericController.Key() and the definitions of the Config variant.  The
\* Config variant looks at a definition's key and hands its spec to
\* newWatchController; it compares no specs, so its definitions take the
\* specs with nil attachments.
Definitions == [key : Keys, spec : {s \in Specs : s.attachments = "nil"}]

\* The list lengths 0..MaxConfigs
ConfigLists == UNION {[1..n -> Definitions] : n \in 0..MaxConfigs}

\* ([]*v1alpha1.GenericController, error) of a definition source.
LoadResults ==
  {[err |-> FALSE, list |-> l] : l \in ConfigLists}
    \cup {[err |-> TRUE, list |-> <<>>]}

\* The paths given to SetMetaControllerConfigPath; "" is the unset field.
ConfigPaths == {"", "/etc/config/metac"}

VARIABLES
  mode,              \* "crd" or "config": which supervisor this is
  WatchControllers,  \* MetaController.WatchControllers: key -> instance or NoWC
  wcs,               \* every watchController constructed so far, by instance
  resolvable,        \* resources that discovery currently resolves
  doneCh,            \* MetaController.doneCh: "nil", "open", "closed"
  stopPc,            \* position of the caller of Stop()
  \* CRD variant
  lister,            \* Lister: key -> spec or NotFound
  hasSynced,         \* Informer.HasSynced
  events,            \* events the informer has written to its store so far
  notifications,     \* keys of stored events whose handler has not run yet
  stopCh,            \* CRDBasedMetaController.stopCh: "nil", "open", "closed"
  queue,             \* Queue: keys ready to be handed out, in order
  dirty,             \* Queue: keys that need processing
  processing,        \* Queue: keys handed out and not yet Done
  waiting,           \* Queue: keys of AddRateLimited waiting for their delay
  backoff,           \* Queue rate limiter: keys with failures not forgotten
  shuttingDown,      \* Queue: ShutDown was called
  workerPc,          \* position of the worker goroutine of Start
  workerKey,         \* processNextWorkItem: key
  workerCtrl,        \* sync: ctrl, the definition read from the lister
  workerErr,         \* processNextWorkItem: err
  workerWC,          \* syncGenericController: wc
  \* Config variant
  configs,           \* GenericControllerConfigs
  waitPc,            \* position of the goroutine of Start
  idx,               \* startAllWatchControllers: position in the range loop
  elapsed,           \* wait: time.Since(start), saturating above the timeout
  condErr,           \* wait: err of the last condition()
  passes,            \* wait: calls of condition() so far
  skipped,           \* startAllWatchControllers: configs of the running pass
                     \* whose key was in the map (continue)
  waitWC,            \* startAllWatchControllers: wc
  \* NewConfigBasedMetaController
  newPc,             \* "new", then "constructed" or "failed" (nil, err)
  ConfigPath,        \* ConfigBasedMetaController.ConfigPath
  GenericControllerAsConfigFn,  \* the field: "nil" or "fn"
  pathConfigs,       \* what config.New(path).Load() and its listing return
  fnConfigs,         \* what the caller's function returns
  loaded,            \* the definition sources invoked so far
  optionErr          \* an option of the caller returns an error

ctorVars == <<newPc, ConfigPath, GenericControllerAsConfigFn, pathConfigs,
              fnConfigs, loaded, optionErr>>
commonVars == <<mode, ctorVars, WatchControllers, wcs, resolvable, doneCh,
                stopPc>>
crdVars == <<lister, hasSynced, events, notifications, stopCh, queue, dirty, processing,
             waiting, backoff, shuttingDown, workerPc, workerKey, workerCtrl,
             workerErr, workerWC>>
queueVars == <<queue, dirty, processing, waiting, backoff, shuttingDown>>
workerVars == <<workerPc, workerKey, workerCtrl, workerErr, workerWC>>
configVars == <<configs, waitPc, idx, elapsed, condErr, passes, skipped,
                waitWC>>
vars == <<commonVars, crdVars, configVars>>

\* WaitIntervalForCondition, the unit of time of the model.
WaitIntervalForCondition == 1

\* WaitTimeoutForCondition in the same unit.
WaitTimeoutForCondition == TimeoutTicks * WaitIntervalForCondition

\* ------------------------------------------------------------------ helpers

\* Semantic.DeepEqual's reading of a slice: an empty slice is a nil slice.
EmptyAsNil(a) == IF a = "empty" THEN "nil" ELSE a

\* apiequality.Semantic.DeepEqual(ctrl.Spec, c.GCtlConfig.Spec)
SemanticDeepEqual(a, b) ==
  /\ a.watch = b.watch
  /\ EmptyAsNil(a.attachments) = EmptyAsNil(b.attachments)

\* newWatchController returns no error: discovery resolves the watched
\* resource of the definition.
CanConstruct(spec) == spec.watch \in resolvable

\* newWatchController(..., conf): the controller holds conf as GCtlConfig.
NewWatchController(key, spec) ==
  [key |-> key, spec |-> spec, state |-> "constructed"]

\* wc.Start(workerCount)
WCStart(ws, i) == [ws EXCEPT ![i].state = "running"]

\* c.Stop()
WCStop(ws, i) == [ws EXCEPT ![i].state = "stopped"]

\* A Queue.Add(key) that also drops a key that is being processed.
QueueAddDropsProcessing(k) ==
  IF shuttingDown \/ k \in dirty \/ k \in processing
  THEN UNCHANGED <<queue, dirty>>
  ELSE /\ dirty' = dirty \cup {k}
       /\ queue' = Append(queue, k)

\* Queue.Add(key) of the work queue: dropped when shutting down or already
\* dirty; not handed out again while it is being processed.
QueueAdd(k) ==
  IF shuttingDown \/ k \in dirty
  THEN UNCHANGED <<queue, dirty>>
  ELSE /\ dirty' = dirty \cup {k}
       /\ queue' = IF k \in processing THEN queue ELSE Append(queue, k)

\* The instances of a key that are started and not stopped.
Running(k) == {i \in 1..Len(wcs) : wcs[i].key = k /\ wcs[i].state = "running"}

\* The keys of the configured definitions.
ConfigKeys == {configs[i].key : i \in 1..Len(configs)}

\* ------------------------------------------------------------------ Init

\* The fields that both constructors leave at their zero values, and the
\* informer and discovery before anything has happened.
InitFields ==
  /\ WatchControllers = [k \in Keys |-> NoWC]
  /\ wcs = <<>>
  /\ resolvable = {}
  /\ doneCh = "nil"
  /\ stopPc = "none"
  /\ lister = [k \in Keys |-> NotFound]
  /\ hasSynced = FALSE
  /\ events = 0
  /\ notifications = <<>>
  /\ stopCh = "nil"
  /\ queue = <<>>
  /\ dirty = {}
  /\ processing = {}
  /\ waiting = {}
  /\ backoff = {}
  /\ shuttingDown = FALSE
  /\ workerPc = "idle"
  /\ workerKey = "none"
  /\ workerCtrl = NotFound
  /\ workerErr = "nil"
  /\ workerWC = NoWC
  /\ waitPc = "idle"
  /\ idx = 1
  /\ elapsed = 0
  /\ condErr = "nil"
  /\ passes = 0
  /\ skipped = 0
  /\ waitWC = NoWC

\* NewCRDBasedMetaController / NewConfigBasedMetaController have returned
\* a supervisor; the Config one got its definitions from a function.
Init ==
  /\ mode \in {"crd", "config"}
  /\ InitFields
  /\ configs \in IF mode = "config" THEN ConfigLists ELSE {<<>>}
  /\ newPc = "constructed"
  /\ ConfigPath = ""
  /\ GenericControllerAsConfigFn = IF mode = "config" THEN "fn" ELSE "nil"
  /\ pathConfigs = [err |-> FALSE, list |-> <<>>]
  /\ fnConfigs = [err |-> FALSE, list |-> configs]
  /\ loaded = IF mode = "config" THEN {"fn"} ELSE {}
  /\ optionErr = FALSE

\* The call of NewConfigBasedMetaController with its options: a path or
\* none, a function or none, an option that returns an error or none, and
\* what each source would return.
InitNew ==
  /\ mode = "config"
  /\ InitFields
  /\ configs = <<>>
  /\ newPc = "new"
  /\ ConfigPath \in ConfigPaths
  /\ GenericControllerAsConfigFn \in {"nil", "fn"}
  /\ pathConfigs \in LoadResults
  /\ fnConfigs \in LoadResults
  /\ loaded = {}
  /\ optionErr \in BOOLEAN

\* ------------------------------------------------------------------ environment

\* Discovery learns of a resource (its CRD is registered).
Register(r) ==
  /\ r \notin resolvable
  /\ waitPc # "fatal"
  /\ resolvable' = resolvable \cup {r}
  /\ UNCHANGED <<mode, ctorVars, WatchControllers, wcs, doneCh, stopPc, crdVars, configVars>>

\* Discovery loses a resource.
Unregister(r) ==
  /\ r \in resolvable
  /\ waitPc # "fatal"
  /\ resolvable' = resolvable \ {r}
  /\ UNCHANGED <<mode, ctorVars, WatchControllers, wcs, doneCh, stopPc, crdVars, configVars>>

\* The informer's initial list is complete.
InformerSynced ==
  /\ mode = "crd"
  /\ ~hasSynced
  /\ hasSynced' = TRUE
  /\ UNCHANGED <<commonVars, lister, events, notifications, stopCh, queueVars,
                 workerVars, configVars>>

\* The informer receives the add of a definition: it writes its store, which
\* the lister reads, and notifies the handler, which runs later.
InformerAdd(k, s) ==
  /\ mode = "crd"
  /\ events < MaxEvents
  /\ lister[k] = NotFound
  /\ lister' = [lister EXCEPT ![k] = s]
  /\ events' = events + 1
  /\ notifications' = Append(notifications, k)
  /\ UNCHANGED <<commonVars, hasSynced, stopCh, queueVars, workerVars,
                 configVars>>

\* The informer receives the update of a definition.
InformerUpdate(k, s) ==
  /\ mode = "crd"
  /\ events < MaxEvents
  /\ lister[k] # NotFound
  /\ lister' = [lister EXCEPT ![k] = s]
  /\ events' = events + 1
  /\ notifications' = Append(notifications, k)
  /\ UNCHANGED <<commonVars, hasSynced, stopCh, queueVars, workerVars,
                 configVars>>

\* The informer receives the delete of a definition.
InformerDelete(k) ==
  /\ mode = "crd"
  /\ events < MaxEvents
  /\ lister[k] # NotFound
  /\ lister' = [lister EXCEPT ![k] = NotFound]
  /\ events' = events + 1
  /\ notifications' = Append(notifications, k)
  /\ UNCHANGED <<commonVars, hasSynced, stopCh, queueVars, workerVars,
                 configVars>>

\* AddFunc, UpdateFunc (updateGenericController) and DeleteFunc: the handler
\* of the oldest notification runs enqueueGenericController, mc.Queue.Add(key).
enqueueGenericController ==
  /\ notifications # <<>>
  /\ QueueAdd(Head(notifications))
  /\ notifications' = Tail(notifications)
  /\ UNCHANGED <<commonVars, lister, hasSynced, events, stopCh, processing,
                 waiting, backoff, shuttingDown, workerVars, configVars>>

\* The delay of an AddRateLimited key is over: the queue adds it.
DelayedAdd(k) ==
  /\ k \in waiting
  /\ waiting' = waiting \ {k}
  /\ QueueAdd(k)
  /\ UNCHANGED <<commonVars, lister, hasSynced, events, notifications, stopCh,
                 processing, backoff, shuttingDown, workerVars, configVars>>

\* ------------------------------------------------------------------ CRD variant

\* CRDBasedMetaController.Start: makes the channels and starts the worker.
CRDStart ==
  /\ mode = "crd"
  /\ workerPc = "idle"
  /\ stopCh' = "open"
  /\ doneCh' = "open"
  /\ workerPc' = "cachesync"
  /\ UNCHANGED <<mode, ctorVars, WatchControllers, wcs, resolvable, stopPc, lister,
                 hasSynced, events, notifications, queueVars, workerKey, workerCtrl, workerErr,
                 workerWC, configVars>>

\* A cache sync whose failure is ignored: the goroutine goes on to the
\* worker loop when stopCh closes first.
WaitForCacheSyncIgnored ==
  /\ workerPc = "cachesync"
  /\ \/ hasSynced
     \/ stopCh = "closed"
  /\ workerPc' = "get"
  /\ UNCHANGED <<mode, ctorVars, WatchControllers, wcs, resolvable, doneCh, stopPc,
                 lister, hasSynced, events, notifications, stopCh, queueVars, workerKey,
                 workerCtrl, workerErr, workerWC, configVars>>

\* k8s.WaitForCacheSync(mc.String(), mc.stopCh, mc.Informer.HasSynced):
\* false when stopCh closes first, and the goroutine returns (close(doneCh)).
WaitForCacheSync ==
  /\ workerPc = "cachesync"
  /\ \/ /\ hasSynced
        /\ workerPc' = "get"
        /\ UNCHANGED doneCh
     \/ /\ stopCh = "closed"
        /\ workerPc' = "exited"
        /\ doneCh' = "closed"
  /\ UNCHANGED <<mode, ctorVars, WatchControllers, wcs, resolvable, stopPc, lister,
                 hasSynced, events, notifications, stopCh, queueVars, workerKey, workerCtrl,
                 workerErr, workerWC, configVars>>

\* processNextWorkItem: key, quit := mc.Queue.Get().  Get blocks while the
\* queue is empty and not shutting down; quit only when it is empty.
WorkerGet ==
  /\ workerPc = "get"
  /\ \/ /\ queue # <<>>
        /\ workerKey' = Head(queue)
        /\ queue' = Tail(queue)
        /\ processing' = processing \cup {Head(queue)}
        /\ dirty' = dirty \ {Head(queue)}
        /\ workerPc' = "sync"
        /\ UNCHANGED doneCh
     \/ /\ queue = <<>>
        /\ shuttingDown
        /\ workerPc' = "exited"
        /\ doneCh' = "closed"
        /\ UNCHANGED <<workerKey, queue, processing, dirty>>
  /\ UNCHANGED <<mode, ctorVars, WatchControllers, wcs, resolvable, stopPc, lister,
                 hasSynced, events, notifications, stopCh, waiting, backoff, shuttingDown,
                 workerCtrl, workerErr, workerWC, configVars>>

\* sync, the definition is not in the lister: with no controller under the
\* key it returns nil; else it goes on to stop the controller.
SyncNotFound ==
  /\ workerPc = "sync"
  /\ lister[workerKey] = NotFound
  /\ IF WatchControllers[workerKey] # NoWC
     THEN /\ workerPc' = "stopgone"
          /\ UNCHANGED workerErr
     ELSE /\ workerErr' = "nil"
          /\ workerPc' = "finish"
  /\ UNCHANGED <<commonVars, lister, hasSynced, events, notifications, stopCh,
                 queueVars, workerKey, workerCtrl, workerWC, configVars>>

\* A sync that forgets the controller of a vanished definition without
\* stopping it.
SyncStopGoneNoStop ==
  /\ workerPc = "stopgone"
  /\ WatchControllers' = [WatchControllers EXCEPT ![workerKey] = NoWC]
  /\ workerErr' = "nil"
  /\ workerPc' = "finish"
  /\ UNCHANGED <<mode, ctorVars, wcs, resolvable, doneCh, stopPc, lister,
                 hasSynced, events, notifications, stopCh, queueVars,
                 workerKey, workerCtrl, workerWC, configVars>>

\* sync after the lister said not found: c.Stop();
\* delete(mc.WatchControllers, key); return nil
SyncStopGone ==
  /\ workerPc = "stopgone"
  /\ wcs' = WCStop(wcs, WatchControllers[workerKey])
  /\ WatchControllers' = [WatchControllers EXCEPT ![workerKey] = NoWC]
  /\ workerErr' = "nil"
  /\ workerPc' = "finish"
  /\ UNCHANGED <<mode, ctorVars, resolvable, doneCh, stopPc, lister, hasSynced,
                 events, notifications, stopCh, queueVars, workerKey,
                 workerCtrl, workerWC, configVars>>

\* A syncGenericController that compares the specs with ==, as memory.
SyncFoundStrictEqual ==
  /\ workerPc = "sync"
  /\ lister[workerKey] # NotFound
  /\ workerCtrl' = lister[workerKey]
  /\ IF WatchControllers[workerKey] # NoWC
     THEN IF lister[workerKey] = wcs[WatchControllers[workerKey]].spec
          THEN /\ workerErr' = "nil"
               /\ workerPc' = "finish"
          ELSE /\ workerPc' = "stopold"
               /\ UNCHANGED workerErr
     ELSE /\ workerPc' = "construct"
          /\ UNCHANGED workerErr
  /\ UNCHANGED <<commonVars, lister, hasSynced, events, notifications, stopCh, queueVars,
                 workerKey, workerWC, configVars>>

\* A syncGenericController that recreates a changed controller without
\* stopping the one it replaces.
SyncFoundNoStop ==
  /\ workerPc = "sync"
  /\ lister[workerKey] # NotFound
  /\ workerCtrl' = lister[workerKey]
  /\ IF /\ WatchControllers[workerKey] # NoWC
        /\ SemanticDeepEqual(lister[workerKey],
                             wcs[WatchControllers[workerKey]].spec)
     THEN /\ workerErr' = "nil"
          /\ workerPc' = "finish"
     ELSE /\ workerPc' = "construct"
          /\ UNCHANGED workerErr
  /\ UNCHANGED <<commonVars, lister, hasSynced, events, notifications, stopCh, queueVars,
                 workerKey, workerWC, configVars>>

\* sync finds the definition and calls syncGenericController, which decides:
\* nothing has changed, or stop and recreate, or create.
SyncFound ==
  /\ workerPc = "sync"
  /\ lister[workerKey] # NotFound
  /\ workerCtrl' = lister[workerKey]
  /\ IF WatchControllers[workerKey] # NoWC
     THEN IF SemanticDeepEqual(lister[workerKey],
                               wcs[WatchControllers[workerKey]].spec)
          THEN /\ workerErr' = "nil"
               /\ workerPc' = "finish"
          ELSE /\ workerPc' = "stopold"
               /\ UNCHANGED workerErr
     ELSE /\ workerPc' = "construct"
          /\ UNCHANGED workerErr
  /\ UNCHANGED <<commonVars, lister, hasSynced, events, notifications, stopCh, queueVars,
                 workerKey, workerWC, configVars>>

\* A syncGenericController that keeps the old controller, running and in the
\* map, while it constructs the replacement.
SyncStopOldKept ==
  /\ workerPc = "stopold"
  /\ workerPc' = "construct"
  /\ UNCHANGED <<mode, ctorVars, WatchControllers, wcs, resolvable, doneCh, stopPc,
                 lister, hasSynced, events, notifications, stopCh, queueVars, workerKey,
                 workerCtrl, workerErr, workerWC, configVars>>

\* A syncGenericController that drops the old controller from the map and
\* leaves it running.
SyncStopOldNoStop ==
  /\ workerPc = "stopold"
  /\ WatchControllers' = [WatchControllers EXCEPT ![workerKey] = NoWC]
  /\ workerPc' = "construct"
  /\ UNCHANGED <<mode, ctorVars, wcs, resolvable, doneCh, stopPc, lister, hasSynced,
                 events, notifications, stopCh, queueVars, workerKey, workerCtrl, workerErr,
                 workerWC, configVars>>

\* syncGenericController: c.Stop(); delete(mc.WatchControllers, ctrl.Key())
SyncStopOld ==
  /\ workerPc = "stopold"
  /\ wcs' = WCStop(wcs, WatchControllers[workerKey])
  /\ WatchControllers' = [WatchControllers EXCEPT ![workerKey] = NoWC]
  /\ workerPc' = "construct"
  /\ UNCHANGED <<mode, ctorVars, resolvable, doneCh, stopPc, lister, hasSynced, events, notifications,
                 stopCh, queueVars, workerKey, workerCtrl, workerErr, workerWC,
                 configVars>>

\* syncGenericController: wc, err := newWatchController(..., ctrl)
SyncConstruct ==
  /\ workerPc = "construct"
  /\ IF CanConstruct(workerCtrl)
     THEN /\ wcs' = Append(wcs, NewWatchController(workerKey, workerCtrl))
          /\ workerWC' = Len(wcs) + 1
          /\ workerPc' = "start"
          /\ UNCHANGED workerErr
     ELSE /\ workerErr' = "err"
          /\ workerPc' = "finish"
          /\ UNCHANGED <<wcs, workerWC>>
  /\ UNCHANGED <<mode, ctorVars, WatchControllers, resolvable, doneCh, stopPc, lister,
                 hasSynced, events, notifications, stopCh, queueVars, workerKey, workerCtrl,
                 configVars>>

\* syncGenericController: wc.Start(mc.WorkerCount);
\* mc.WatchControllers[ctrl.Key()] = wc; return nil
SyncStart ==
  /\ workerPc = "start"
  /\ wcs' = WCStart(wcs, workerWC)
  /\ WatchControllers' = [WatchControllers EXCEPT ![workerKey] = workerWC]
  /\ workerErr' = "nil"
  /\ workerPc' = "finish"
  /\ UNCHANGED <<mode, ctorVars, resolvable, doneCh, stopPc, lister, hasSynced, events, notifications,
                 stopCh, queueVars, workerKey, workerCtrl, workerWC, configVars>>

\* A worker that logs the error of sync and does not requeue the key.
AfterSyncErrorNoRequeue ==
  /\ backoff' = backoff \cup {workerKey}
  /\ UNCHANGED waiting

\* Queue.AddRateLimited(key): the rate limiter counts the failure and the
\* key waits for its delay, unless the queue is shutting down.
AfterSyncError ==
  /\ backoff' = backoff \cup {workerKey}
  /\ waiting' = IF shuttingDown THEN waiting ELSE waiting \cup {workerKey}

\* Queue.Forget(key): the rate limiter stops tracking the key.
AfterSyncSuccess ==
  /\ backoff' = backoff \ {workerKey}
  /\ UNCHANGED waiting

\* processNextWorkItem after sync: Queue.AddRateLimited(key) on an error,
\* Queue.Forget(key) on success; return true.
WorkerFinish ==
  /\ workerPc = "finish"
  /\ IF workerErr # "nil" THEN AfterSyncError ELSE AfterSyncSuccess
  /\ workerPc' = "done"
  /\ UNCHANGED <<commonVars, lister, hasSynced, events, notifications, stopCh,
                 queue, dirty, processing, shuttingDown, workerKey, workerCtrl,
                 workerErr, workerWC, configVars>>

\* A processNextWorkItem without the deferred Queue.Done(key).
WorkerDoneSkipped ==
  /\ workerPc = "done"
  /\ workerPc' = "get"
  /\ workerKey' = "none"
  /\ workerCtrl' = NotFound
  /\ workerErr' = "nil"
  /\ workerWC' = NoWC
  /\ UNCHANGED <<commonVars, lister, hasSynced, events, notifications, stopCh,
                 queueVars, configVars>>

\* processNextWorkItem: the deferred Queue.Done(key), which puts a dirty key
\* in the queue again.
WorkerDone ==
  /\ workerPc = "done"
  /\ processing' = processing \ {workerKey}
  /\ queue' = IF workerKey \in dirty THEN Append(queue, workerKey) ELSE queue
  /\ workerPc' = "get"
  /\ workerKey' = "none"
  /\ workerCtrl' = NotFound
  /\ workerErr' = "nil"
  /\ workerWC' = NoWC
  /\ UNCHANGED <<commonVars, lister, hasSynced, events, notifications, stopCh,
                 dirty, waiting, backoff, shuttingDown, configVars>>

\* CRDBasedMetaController.Stop: close(mc.stopCh)
CRDStopBegin ==
  /\ mode = "crd"
  /\ stopPc = "none"
  /\ workerPc # "idle"
  /\ stopCh' = "closed"
  /\ stopPc' = "shutdown"
  /\ UNCHANGED <<mode, ctorVars, WatchControllers, wcs, resolvable, doneCh,
                 lister, hasSynced, events, notifications, queueVars,
                 workerVars, configVars>>

\* A Stop that leaves the queue open.
CRDStopShutDownSkipped ==
  /\ stopPc = "shutdown"
  /\ stopPc' = "waitdone"
  /\ UNCHANGED <<mode, ctorVars, WatchControllers, wcs, resolvable, doneCh,
                 lister, hasSynced, events, notifications, stopCh, queueVars,
                 workerVars, configVars>>

\* CRDBasedMetaController.Stop: mc.Queue.ShutDown()
CRDStopShutDown ==
  /\ stopPc = "shutdown"
  /\ shuttingDown' = TRUE
  /\ stopPc' = "waitdone"
  /\ UNCHANGED <<mode, ctorVars, WatchControllers, wcs, resolvable, doneCh,
                 lister, hasSynced, events, notifications, stopCh, queue, dirty,
                 processing, waiting, backoff, workerVars, configVars>>

\* ------------------------------------------------------------------ Config variant

\* A constructor that asks the function first and the path only without one.
NewConfigBasedMetaControllerFnFirst ==
  /\ mode = "config"
  /\ newPc = "new"
  /\ IF optionErr \/ (ConfigPath = "" /\ GenericControllerAsConfigFn = "nil")
     THEN /\ newPc' = "failed"
          /\ UNCHANGED <<configs, loaded>>
     ELSE IF GenericControllerAsConfigFn # "nil"
     THEN /\ loaded' = loaded \cup {"fn"}
          /\ newPc' = IF fnConfigs.err THEN "failed" ELSE "constructed"
          /\ configs' = IF fnConfigs.err THEN configs ELSE fnConfigs.list
     ELSE /\ loaded' = loaded \cup {"path"}
          /\ newPc' = IF pathConfigs.err THEN "failed" ELSE "constructed"
          /\ configs' = IF pathConfigs.err THEN configs ELSE pathConfigs.list
  /\ UNCHANGED <<mode, ConfigPath, GenericControllerAsConfigFn, pathConfigs,
                 fnConfigs, optionErr, WatchControllers, wcs, resolvable, doneCh, stopPc,
                 crdVars, waitPc, idx, elapsed, condErr, passes, skipped, waitWC>>

\* NewConfigBasedMetaController: fails when an option returns an error, and
\* with neither a path nor a function; else gets the definitions from the path, if one is set, or from the
\* function, fails if that fails, and keeps them as GenericControllerConfigs.
NewConfigBasedMetaController ==
  /\ mode = "config"
  /\ newPc = "new"
  /\ IF optionErr \/ (ConfigPath = "" /\ GenericControllerAsConfigFn = "nil")
     THEN /\ newPc' = "failed"
          /\ UNCHANGED <<configs, loaded>>
     ELSE IF ConfigPath # ""
     THEN /\ loaded' = loaded \cup {"path"}
          /\ newPc' = IF pathConfigs.err THEN "failed" ELSE "constructed"
          /\ configs' = IF pathConfigs.err THEN configs ELSE pathConfigs.list
     ELSE /\ loaded' = loaded \cup {"fn"}
          /\ newPc' = IF fnConfigs.err THEN "failed" ELSE "constructed"
          /\ configs' = IF fnConfigs.err THEN configs ELSE fnConfigs.list
  /\ UNCHANGED <<mode, ConfigPath, GenericControllerAsConfigFn, pathConfigs,
                 fnConfigs, optionErr, WatchControllers, wcs, resolvable, doneCh, stopPc,
                 crdVars, waitPc, idx, elapsed, condErr, passes, skipped, waitWC>>

\* ConfigBasedMetaController.Start: makes doneCh, starts the goroutine that
\* will run mc.wait(mc.startAllWatchControllers), and returns.
ConfigStart ==
  /\ mode = "config"
  /\ newPc = "constructed"
  /\ waitPc = "idle"
  /\ doneCh' = "open"
  /\ waitPc' = "begin"
  /\ UNCHANGED <<mode, ctorVars, WatchControllers, wcs, resolvable, stopPc, crdVars,
                 configs, idx, elapsed, condErr, passes, skipped, waitWC>>

\* The goroutine of Start gets to run: wait marks the start time and calls
\* condition() for the first time.
WaitBegin ==
  /\ waitPc = "begin"
  /\ waitPc' = "cond"
  /\ idx' = 1
  /\ elapsed' = 0
  /\ passes' = 1
  /\ skipped' = 0
  /\ UNCHANGED <<commonVars, crdVars, configs, condErr, waitWC>>

\* A range loop that returns (true, nil) at a key that is already in the
\* map, where the code continues.
StartAllSkipReturns ==
  /\ waitPc = "cond"
  /\ idx <= Len(configs)
  /\ WatchControllers[configs[idx].key] # NoWC
  /\ idx' = Len(configs) + 1
  /\ UNCHANGED <<commonVars, crdVars, configs, waitPc, elapsed, condErr,
                 passes, skipped, waitWC>>

\* A range loop that replaces the controller of a key that is already in
\* the map by one for the later definition of the key.
StartAllSkipOverwrites ==
  /\ waitPc = "cond"
  /\ idx <= Len(configs)
  /\ WatchControllers[configs[idx].key] # NoWC
  /\ wcs' = Append(WCStop(wcs, WatchControllers[configs[idx].key]),
                   [key |-> configs[idx].key, spec |-> configs[idx].spec,
                    state |-> "running"])
  /\ WatchControllers' =
       [WatchControllers EXCEPT ![configs[idx].key] = Len(wcs) + 1]
  /\ idx' = idx + 1
  /\ UNCHANGED <<mode, ctorVars, resolvable, doneCh, stopPc, crdVars, configs, waitPc,
                 elapsed, condErr, passes, skipped, waitWC>>

\* startAllWatchControllers, one turn of the range loop on a key that is
\* already in the map: continue.
StartAllSkip ==
  /\ waitPc = "cond"
  /\ idx <= Len(configs)
  /\ WatchControllers[configs[idx].key] # NoWC
  /\ idx' = idx + 1
  /\ skipped' = skipped + 1
  /\ UNCHANGED <<commonVars, crdVars, configs, waitPc, elapsed, condErr,
                 passes, waitWC>>

\* A range loop that logs the error of newWatchController and goes on to
\* the next config.
StartAllConstructSwallow ==
  /\ waitPc = "cond"
  /\ idx <= Len(configs)
  /\ WatchControllers[configs[idx].key] = NoWC
  /\ IF CanConstruct(configs[idx].spec)
     THEN /\ wcs' = Append(wcs, NewWatchController(configs[idx].key,
                                                   configs[idx].spec))
          /\ waitWC' = Len(wcs) + 1
          /\ waitPc' = "start"
          /\ UNCHANGED idx
     ELSE /\ idx' = idx + 1
          /\ UNCHANGED <<wcs, waitWC, waitPc>>
  /\ UNCHANGED <<mode, ctorVars, WatchControllers, resolvable, doneCh, stopPc, crdVars,
                 configs, condErr, elapsed, passes, skipped>>

\* A range loop without the test of the map: it constructs a controller for
\* a key whether or not one is recorded.
StartAllConstructAgain ==
  /\ waitPc = "cond"
  /\ idx <= Len(configs)
  /\ IF CanConstruct(configs[idx].spec)
     THEN /\ wcs' = Append(wcs, NewWatchController(configs[idx].key,
                                                   configs[idx].spec))
          /\ waitWC' = Len(wcs) + 1
          /\ waitPc' = "start"
          /\ UNCHANGED condErr
     ELSE /\ condErr' = "err"
          /\ waitPc' = "check"
          /\ UNCHANGED <<wcs, waitWC>>
  /\ UNCHANGED <<mode, ctorVars, WatchControllers, resolvable, doneCh, stopPc, crdVars,
                 configs, idx, elapsed, passes, skipped>>

\* startAllWatchControllers: wc, err := newWatchController(..., conf); on
\* an error the pass returns (false, err).
StartAllConstruct ==
  /\ waitPc = "cond"
  /\ idx <= Len(configs)
  /\ WatchControllers[configs[idx].key] = NoWC
  /\ IF CanConstruct(configs[idx].spec)
     THEN /\ wcs' = Append(wcs, NewWatchController(configs[idx].key,
                                                   configs[idx].spec))
          /\ waitWC' = Len(wcs) + 1
          /\ waitPc' = "start"
          /\ UNCHANGED condErr
     ELSE /\ condErr' = "err"
          /\ waitPc' = "check"
          /\ UNCHANGED <<wcs, waitWC>>
  /\ UNCHANGED <<mode, ctorVars, WatchControllers, resolvable, doneCh, stopPc, crdVars,
                 configs, idx, elapsed, passes, skipped>>

\* startAllWatchControllers: wc.Start(mc.WorkerCount);
\* mc.WatchControllers[key] = wc
StartAllStart ==
  /\ waitPc = "start"
  /\ wcs' = WCStart(wcs, waitWC)
  /\ WatchControllers' = [WatchControllers EXCEPT ![configs[idx].key] = waitWC]
  /\ idx' = idx + 1
  /\ waitWC' = NoWC
  /\ waitPc' = "cond"
  /\ UNCHANGED <<mode, ctorVars, resolvable, doneCh, stopPc, crdVars, configs, elapsed,
                 condErr, passes, skipped>>

\* startAllWatchControllers returns (true, nil) after the last config; wait
\* returns nil and the goroutine of Start ends: close(mc.doneCh).
WaitSucceeds ==
  /\ waitPc = "cond"
  /\ idx > Len(configs)
  /\ waitPc' = "succeeded"
  /\ doneCh' = "closed"
  /\ UNCHANGED <<mode, ctorVars, WatchControllers, wcs, resolvable, stopPc, crdVars,
                 configs, idx, elapsed, condErr, passes, skipped, waitWC>>

\* A timeout that is reached at the limit, not past it.
TimedOutAtLimit == elapsed >= WaitTimeoutForCondition

\* time.Since(start) > mc.WaitTimeoutForCondition
TimedOut == elapsed > WaitTimeoutForCondition

\* wait after a failed condition: past the timeout it returns the error and
\* Start calls glog.Fatalf, which ends the process; else it goes to sleep.
WaitCheck ==
  /\ waitPc = "check"
  /\ waitPc' = IF TimedOut THEN "fatal" ELSE "sleep"
  /\ UNCHANGED <<commonVars, crdVars, configs, idx, elapsed, condErr, passes,
                 skipped, waitWC>>

\* The clock, which stops counting once past the timeout.
Advance(t, d) ==
  IF t + d > WaitTimeoutForCondition THEN WaitTimeoutForCondition + 1 ELSE t + d

\* wait: time.Sleep(mc.WaitIntervalForCondition), then the next condition().
WaitSleep ==
  /\ waitPc = "sleep"
  /\ elapsed' = Advance(elapsed, WaitIntervalForCondition)
  /\ idx' = 1
  /\ condErr' = "nil"
  /\ passes' = passes + 1
  /\ skipped' = 0
  /\ waitPc' = "cond"
  /\ UNCHANGED <<commonVars, crdVars, configs, waitWC>>

\* Time passes while a pass of startAllWatchControllers runs.
Tick ==
  /\ waitPc \in {"cond", "start", "check"}
  /\ ~TimedOut
  /\ elapsed' = Advance(elapsed, 1)
  /\ UNCHANGED <<commonVars, crdVars, configs, waitPc, idx, condErr, passes,
                 skipped, waitWC>>

\* ConfigBasedMetaController.Stop is called: it logs and goes on to wait
\* for doneCh.
ConfigStopBegin ==
  /\ mode = "config"
  /\ stopPc = "none"
  /\ waitPc \notin {"idle", "fatal"}
  /\ stopPc' = "waitdone"
  /\ UNCHANGED <<mode, ctorVars, WatchControllers, wcs, resolvable, doneCh, crdVars,
                 configVars>>

\* ------------------------------------------------------------------ Stop, both variants

\* A Stop that goes on to the children without waiting for doneCh.
StopWaitDoneNoWait ==
  /\ stopPc = "waitdone"
  /\ stopPc' = "children"
  /\ UNCHANGED <<mode, ctorVars, WatchControllers, wcs, resolvable, doneCh,
                 crdVars, configVars>>

\* Stop: <-mc.doneCh
StopWaitDone ==
  /\ stopPc = "waitdone"
  /\ doneCh = "closed"
  /\ stopPc' = "children"
  /\ UNCHANGED <<mode, ctorVars, WatchControllers, wcs, resolvable, doneCh, crdVars,
                 configVars>>

\* A Stop whose goroutine also deletes the controller it stopped from the
\* map, as sync does.
StopChildDeletes(k) ==
  /\ stopPc = "children"
  /\ WatchControllers[k] # NoWC
  /\ wcs[WatchControllers[k]].state = "running"
  /\ wcs' = WCStop(wcs, WatchControllers[k])
  /\ WatchControllers' = [WatchControllers EXCEPT ![k] = NoWC]
  /\ UNCHANGED <<mode, ctorVars, resolvable, doneCh, stopPc, crdVars,
                 configVars>>

\* Stop: one of the goroutines started in the range over WatchControllers
\* runs c.Stop().
StopChild(k) ==
  /\ stopPc = "children"
  /\ WatchControllers[k] # NoWC
  /\ wcs[WatchControllers[k]].state = "running"
  /\ wcs' = WCStop(wcs, WatchControllers[k])
  /\ UNCHANGED <<mode, ctorVars, WatchControllers, resolvable, doneCh, stopPc, crdVars,
                 configVars>>

\* Stop: wg.Wait() returns when every goroutine is done.
StopReturn ==
  /\ stopPc = "children"
  /\ \A k \in Keys : WatchControllers[k] # NoWC =>
        wcs[WatchControllers[k]].state = "stopped"
  /\ stopPc' = "returned"
  /\ UNCHANGED <<mode, ctorVars, WatchControllers, wcs, resolvable, doneCh, crdVars,
                 configVars>>

\* ------------------------------------------------------------------ specification

\* Discovery, outside the process.
Discovery ==
  \/ \E r \in Resources : Register(r)
  \/ \E r \in Resources : Unregister(r)

\* The GenericController informer, its handlers and the timers of the queue.
Informer ==
  \/ InformerSynced
  \/ enqueueGenericController
  \/ \E k \in Keys, s \in Specs : InformerAdd(k, s)
  \/ \E k \in Keys, s \in Specs : InformerUpdate(k, s)
  \/ \E k \in Keys : InformerDelete(k)
  \/ \E k \in Keys : DelayedAdd(k)

\* The goroutine of CRDBasedMetaController.Start.
CRDWorker ==
  \/ WaitForCacheSync
  \/ WorkerGet
  \/ SyncNotFound
  \/ SyncStopGone
  \/ SyncFound
  \/ SyncStopOld
  \/ SyncConstruct
  \/ SyncStart
  \/ WorkerFinish
  \/ WorkerDone

\* The goroutine of ConfigBasedMetaController.Start.
ConfigWait ==
  \/ WaitBegin
  \/ StartAllSkip
  \/ StartAllConstruct
  \/ StartAllStart
  \/ WaitSucceeds
  \/ WaitCheck
  \/ WaitSleep

\* Stop after <-mc.doneCh, the same in both variants.
StopChildren ==
  \/ StopWaitDone
  \/ \E k \in Keys : StopChild(k)
  \/ StopReturn

\* A CRD supervisor that is started and never stopped.
CRDRunNext ==
  \/ Discovery
  \/ Informer
  \/ CRDStart
  \/ CRDWorker

CRDNext ==
  \/ CRDRunNext
  \/ CRDStopBegin
  \/ CRDStopShutDown
  \/ StopChildren

\* The informer, its handlers and the timers of the queue when at most
\* MaxLiveEvents events arrive.
LiveInformer ==
  \/ InformerSynced
  \/ enqueueGenericController
  \/ events < MaxLiveEvents /\ \E k \in Keys, s \in Specs : InformerAdd(k, s)
  \/ events < MaxLiveEvents /\ \E k \in Keys, s \in Specs : InformerUpdate(k, s)
  \/ events < MaxLiveEvents /\ \E k \in Keys : InformerDelete(k)
  \/ \E k \in Keys : DelayedAdd(k)

\* A CRD supervisor that is started and never stopped, with few events.
LiveCRDRunNext ==
  \/ Discovery
  \/ LiveInformer
  \/ CRDStart
  \/ CRDWorker

\* A CRD supervisor with Stop and few events.
LiveCRDNext ==
  \/ LiveCRDRunNext
  \/ CRDStopBegin
  \/ CRDStopShutDown
  \/ StopChildren

\* A Config supervisor that is started and never stopped.
ConfigRunNext ==
  \/ Discovery
  \/ Tick
  \/ ConfigStart
  \/ ConfigWait

ConfigNext ==
  \/ ConfigRunNext
  \/ ConfigStopBegin
  \/ StopChildren

Next ==
  \/ Discovery
  \/ Informer
  \/ CRDStart
  \/ CRDWorker
  \/ CRDStopBegin
  \/ CRDStopShutDown
  \/ Tick
  \/ ConfigStart
  \/ ConfigWait
  \/ ConfigStopBegin
  \/ StopChildren

InitCRD == Init /\ mode = "crd"

InitConfig == Init /\ mode = "config"

\* Either supervisor.
Spec == Init /\ [][Next]_vars

\* The CRD supervisor.
CRDSpec == InitCRD /\ [][CRDNext]_vars

\* The Config supervisor.
ConfigSpec == InitConfig /\ [][ConfigNext]_vars

\* The construction of a Config supervisor and its Start.
NewConfigNext ==
  \/ NewConfigBasedMetaController
  \/ ConfigStart

NewConfigSpec == InitNew /\ [][NewConfigNext]_vars

TypeOK ==
  /\ mode \in {"crd", "config"}
  /\ WatchControllers \in [Keys -> 0..Len(wcs)]
  /\ \A i \in 1..Len(wcs) :
        /\ wcs[i].key \in Keys
        /\ wcs[i].spec \in Specs
        /\ wcs[i].state \in {"constructed", "running", "stopped"}
  /\ resolvable \subseteq Resources
  /\ doneCh \in {"nil", "open", "closed"}
  /\ stopPc \in {"none", "shutdown", "waitdone", "children", "returned"}
  /\ lister \in [Keys -> Specs \cup {NotFound}]
  /\ events \in 0..MaxEvents
  /\ notifications \in UNION {[1..n -> Keys] : n \in 0..MaxEvents}
  /\ dirty \subseteq Keys /\ processing \subseteq Keys
  /\ waiting \subseteq Keys /\ backoff \subseteq Keys
  /\ elapsed \in 0..(WaitTimeoutForCondition + 1)
  /\ idx \in 1..(Len(configs) + 1)
  /\ passes \in 0..(WaitTimeoutForCondition + 2)
  /\ skipped \in 0..MaxConfigs
  /\ newPc \in {"new", "constructed", "failed"}
  /\ ConfigPath \in ConfigPaths
  /\ GenericControllerAsConfigFn \in {"nil", "fn"}
  /\ pathConfigs \in LoadResults /\ fnConfigs \in LoadResults
  /\ loaded \subseteq {"path", "fn"}
  /\ optionErr \in BOOLEAN

\* The CRD supervisor, started and not stopped, with its goroutine, the
\* handlers of the informer and the timers of its queue scheduled fairly and
\* an informer that syncs.
LiveCRDSpec ==
  /\ InitCRD
  /\ [][LiveCRDRunNext]_vars
  /\ WF_vars(CRDStart)
  /\ WF_vars(InformerSynced)
  /\ WF_vars(enqueueGenericController)
  /\ WF_vars(CRDWorker)
  /\ \A k \in Keys : WF_vars(DelayedAdd(k))

\* The CRD supervisor with Stop: every sync of the goroutine of Start and
\* every Stop of a child controller terminates.
LiveCRDStopSpec ==
  /\ InitCRD
  /\ [][LiveCRDNext]_vars
  /\ WF_vars(CRDWorker)
  /\ WF_vars(CRDStopShutDown)
  /\ WF_vars(StopChildren)

\* The Config supervisor, started and not stopped, with the goroutine of
\* Start scheduled fairly.
LiveConfigSpec ==
  /\ InitConfig
  /\ [][ConfigRunNext]_vars
  /\ WF_vars(ConfigStart)
  /\ WF_vars(ConfigWait)

\* ------------------------------------------------------------------ claims

\* C1: in every reachable state of either supervisor, every definition key
\* has at most one watch controller that is started and not stopped.
AtMostOneRunningPerKey == \A k \in Keys : Cardinality(Running(k)) <= 1

\* C1 witness: a key whose controller was replaced: one instance of the key
\* is stopped and another one runs.
ReplacedControllerRuns ==
  \E k \in Keys :
    /\ Running(k) # {}
    /\ \E i \in 1..Len(wcs) : wcs[i].key = k /\ wcs[i].state = "stopped"

\* C2: when the CRD worker constructs or starts the controller of a key,
\* every earlier controller of that key has been stopped: the old and the
\* new controller of a key never run together.
OldStoppedBeforeNew ==
  [][(workerPc \in {"construct", "start"} /\ wcs' # wcs) =>
       /\ \A i \in 1..Len(wcs) :
            (wcs[i].key = workerKey /\ i # workerWC) => wcs[i].state = "stopped"
       /\ Cardinality({i \in 1..Len(wcs') :
                         wcs'[i].key = workerKey /\ wcs'[i].state # "stopped"}) = 1
    ]_vars

\* C2 witness: the worker has started a controller for a spec that differs
\* from the spec of the stopped controller it replaces.
RecreatedOnSpecChange ==
  /\ workerPc = "finish"
  /\ workerWC # NoWC
  /\ wcs[workerWC].state = "running"
  /\ \E i \in 1..Len(wcs) :
       /\ wcs[i].key = workerKey
       /\ wcs[i].state = "stopped"
       /\ ~SemanticDeepEqual(wcs[i].spec, wcs[workerWC].spec)

\* C3: a CRD reconcile that does not find its key in the lister stops the
\* controller recorded for the key and removes its entry, constructs
\* nothing, and succeeds: the key is forgotten and not requeued.  With no
\* controller recorded the map and the controllers stay as they are.
NotFoundStopsAndDrops ==
  [][/\ (workerPc = "sync" /\ lister[workerKey] = NotFound /\ workerPc' # "sync") =>
          /\ UNCHANGED <<WatchControllers, wcs>>
          /\ IF WatchControllers[workerKey] # NoWC
             THEN workerPc' = "stopgone"
             ELSE workerPc' = "finish" /\ workerErr' = "nil"
     /\ (workerPc = "stopgone" /\ workerPc' # "stopgone") =>
          /\ WatchControllers[workerKey] # NoWC
          /\ WatchControllers' = [WatchControllers EXCEPT ![workerKey] = NoWC]
          /\ Len(wcs') = Len(wcs)
          /\ \A i \in 1..Len(wcs) :
               wcs'[i] = IF i = WatchControllers[workerKey]
                         THEN [wcs[i] EXCEPT !.state = "stopped"]
                         ELSE wcs[i]
          /\ workerErr' = "nil"
          /\ workerPc' = "finish"
     /\ (workerPc \in {"finish", "done"} /\ workerCtrl = NotFound
           /\ workerPc' # workerPc) =>
          /\ workerErr = "nil"
          /\ workerKey \notin backoff'
          /\ waiting' = waiting
          /\ UNCHANGED <<WatchControllers, wcs>>
    ]_vars

\* C3 witness: the reconcile of a vanished key has stopped its controller.
VanishedKeyStopped ==
  /\ workerPc = "finish"
  /\ workerCtrl = NotFound
  /\ lister[workerKey] = NotFound
  /\ WatchControllers[workerKey] = NoWC
  /\ \E i \in 1..Len(wcs) : wcs[i].key = workerKey /\ wcs[i].state = "stopped"

\* C4: a CRD reconcile of a key whose recorded controller holds a spec that
\* is semantically equal to the current one changes nothing: no controller
\* is stopped, replaced or constructed, the map is unchanged, and it succeeds.
EqualSpecIsNoOp ==
  [][(/\ workerPc = "sync"
      /\ lister[workerKey] # NotFound
      /\ WatchControllers[workerKey] # NoWC
      /\ lister[workerKey].watch = wcs[WatchControllers[workerKey]].spec.watch
      /\ lister[workerKey].attachments \in {"nil", "empty"}
      /\ wcs[WatchControllers[workerKey]].spec.attachments \in {"nil", "empty"}
      /\ workerPc' # "sync") =>
       /\ WatchControllers' = WatchControllers
       /\ wcs' = wcs
       /\ workerErr' = "nil"
       /\ workerPc' = "finish"
    ]_vars

\* C4 witness: a reconcile has ended as a no-op on a spec that is equal to
\* the recorded one in meaning and not in memory.
NoOpOnEqualMeaning ==
  /\ workerPc = "finish"
  /\ workerCtrl # NotFound
  /\ workerWC = NoWC
  /\ workerErr = "nil"
  /\ WatchControllers[workerKey] # NoWC
  /\ wcs[WatchControllers[workerKey]].state = "running"
  /\ wcs[WatchControllers[workerKey]].spec # workerCtrl
  /\ SemanticDeepEqual(wcs[WatchControllers[workerKey]].spec, workerCtrl)

\* Construction succeeds for every definition in the lister.
ExistingResolvable ==
  \A k \in Keys : lister[k] # NotFound => CanConstruct(lister[k])

\* The map holds exactly the keys of the lister, each with a running
\* controller whose spec is the current one to Semantic.DeepEqual.
Converged ==
  \A k \in Keys :
    IF lister[k] = NotFound
    THEN WatchControllers[k] = NoWC
    ELSE /\ WatchControllers[k] # NoWC
         /\ wcs[WatchControllers[k]].state = "running"
         /\ wcs[WatchControllers[k]].key = k
         /\ SemanticDeepEqual(wcs[WatchControllers[k]].spec, lister[k])

\* C5: in CRD mode with a fairly scheduled worker, once the definitions no
\* longer change and construction succeeds for each of them from some time
\* on, the map comes to hold exactly the keys of the existing definitions,
\* each with a running controller of the current spec, and stays so.
EventuallyConverged == (<>[]ExistingResolvable) => <>[]Converged

\* C5 witness: the supervisor has converged after a construction failed:
\* the definition has its controller, the queue is drained, and the requeue
\* of the failed sync is still waiting for its delay.
ConvergedAfterRetry ==
  /\ Converged
  /\ \E k \in Keys : lister[k] # NotFound /\ k \in waiting
  /\ workerPc = "get"
  /\ queue = <<>>
  /\ notifications = <<>>

\* The goroutine of Start has ended and closed doneCh.
LoopEnded ==
  /\ doneCh = "closed"
  /\ IF mode = "crd" THEN workerPc = "exited" ELSE waitPc = "succeeded"

\* What holds of Stop in both variants: the children are stopped only
\* after the goroutine of Start has ended, so nothing is constructed,
\* started or recorded from then on, and Stop returns with every recorded
\* controller stopped.
StopOrdering ==
  /\ stopPc \in {"children", "returned"} =>
       /\ LoopEnded
       /\ \A i \in 1..Len(wcs) : wcs[i].state # "constructed"
       /\ \A i \in 1..Len(wcs) :
            wcs[i].state = "running" => WatchControllers[wcs[i].key] = i
  /\ stopPc = "returned" =>
       \A k \in Keys : WatchControllers[k] # NoWC =>
          wcs[WatchControllers[k]].state = "stopped"

\* C6: Stop of either supervisor first signals the goroutine of Start to
\* exit, waits for doneCh, and only then stops the children: once it has
\* been called the exit signal is raised, nothing is constructed, started
\* or recorded once it stops children, and it returns with every recorded
\* controller stopped.
StopSignalsThenStops ==
  /\ (stopPc = "waitdone" /\ ~LoopEnded) => stopCh = "closed"
  /\ StopOrdering

\* C7: once Stop of the Config supervisor has been called, the wait loop
\* begins no further pass of start attempts.
StopEndsWaitLoop ==
  [][(mode = "config" /\ stopPc # "none") => passes' = passes]_vars

\* C8: in Config mode, when the wait loop has completed successfully, the
\* map holds exactly the keys of the configured definitions, each with a
\* started controller of that key.
SuccessMeansAllStarted ==
  (mode = "config" /\ waitPc = "succeeded") =>
    \A k \in Keys :
      IF k \in ConfigKeys
      THEN /\ WatchControllers[k] # NoWC
           /\ wcs[WatchControllers[k]].key = k
           /\ \/ wcs[WatchControllers[k]].state = "running"
              \/ /\ stopPc \in {"children", "returned"}
                 /\ wcs[WatchControllers[k]].state = "stopped"
      ELSE WatchControllers[k] = NoWC

\* C8 witness: the wait loop has succeeded on a second or later pass over
\* two definitions with different keys.
SucceededWithTwoKeys ==
  /\ waitPc = "succeeded"
  /\ Cardinality(ConfigKeys) = 2
  /\ passes >= 2

\* Construction succeeds for every configured definition.
ConfigsResolvable ==
  \A i \in 1..Len(configs) : CanConstruct(configs[i].spec)

\* The wait loop has ended without a fatal error and every configured key
\* has its running controller.
AllConfiguredRunning ==
  /\ waitPc = "succeeded"
  /\ \A k \in ConfigKeys :
       /\ WatchControllers[k] # NoWC
       /\ wcs[WatchControllers[k]].state = "running"

\* C9: in Config mode, while the wait loop has a start attempt ahead of it
\* (its goroutine is about to begin, it runs a pass or it sleeps towards the
\* next one), if construction succeeds
\* from then on, then eventually all configured controllers are running and
\* the loop has ended without a fatal error.
RetriesUntilDiscoverySucceeds ==
  (mode = "config" /\ waitPc \in {"begin", "cond", "start", "sleep"})
    ~> (~ConfigsResolvable \/ AllConfiguredRunning)

\* C9 witness: both controllers of a two-key configuration run after the
\* wait loop went through a failed pass and a sleep.
RunningAfterRetry ==
  /\ AllConfiguredRunning
  /\ Cardinality(ConfigKeys) = 2
  /\ passes >= 2
  /\ elapsed <= WaitTimeoutForCondition

\* C10: in Config mode the wait loop gives up exactly when a pass has
\* failed and the time since its start exceeds WaitTimeoutForCondition:
\* it then ends fatally, and nothing is attempted afterwards.
TimeoutIsFatal ==
  [][/\ (waitPc = "check" /\ elapsed > WaitTimeoutForCondition /\ waitPc' # "check")
          => waitPc' = "fatal"
     /\ (waitPc # "fatal" /\ waitPc' = "fatal")
          => (waitPc = "check" /\ condErr = "err"
              /\ elapsed > WaitTimeoutForCondition)
     /\ waitPc = "fatal"
          => (waitPc' = "fatal" /\ passes' = passes /\ wcs' = wcs
              /\ WatchControllers' = WatchControllers)
    ]_vars

\* C10 witness: the process has ended fatally after passes that kept
\* failing until the timeout was exceeded.
FatalAfterRetries ==
  /\ waitPc = "fatal"
  /\ passes >= 2
  /\ \E k \in ConfigKeys : WatchControllers[k] = NoWC

\* The first definition of a key in the order of the configured list.
FirstOfKey(k) ==
  CHOOSE i \in 1..Len(configs) :
    /\ configs[i].key = k
    /\ \A j \in 1..(i - 1) : configs[j].key # k

\* C11: in Config mode only the first definition of a key, in list order,
\* ever gets a controller: every controller of the key holds the spec of
\* that definition, a key has one controller at most, and a pass fails
\* only at the first definition of a key that has no controller, never at
\* a later duplicate.
FirstDefinitionWins ==
  mode = "config" =>
    /\ \A i \in 1..Len(wcs) :
         /\ wcs[i].spec = configs[FirstOfKey(wcs[i].key)].spec
         /\ \A j \in 1..Len(wcs) : wcs[j].key = wcs[i].key => j = i
    /\ waitPc \in {"start", "check"} => idx = FirstOfKey(configs[idx].key)

\* C11 witness: a list of two definitions of one key with different specs
\* has been started after a retry: the key has the controller of the first.
DuplicateSkipped ==
  /\ waitPc = "succeeded"
  /\ passes >= 2
  /\ Len(configs) = 2
  /\ configs[1].key = configs[2].key
  /\ ~SemanticDeepEqual(configs[1].spec, configs[2].spec)
  /\ Len(wcs) = 1
  /\ WatchControllers[configs[1].key] = 1
  /\ wcs[1].state = "running"

\* C12: NewConfigBasedMetaController takes the definitions from the path
\* whenever a path is set, and then never calls the function; it calls the
\* function only with an empty path; with neither it fails and calls
\* nothing.  It fails exactly when the source it asked fails; when an
\* option returns an error it fails before it asks any source.
PathOverridesFunction ==
  newPc # "new" =>
    /\ optionErr =>
         /\ loaded = {}
         /\ newPc = "failed"
    /\ (~optionErr /\ ConfigPath # "") =>
         /\ loaded = {"path"}
         /\ newPc = (IF pathConfigs.err THEN "failed" ELSE "constructed")
         /\ newPc = "constructed" => configs = pathConfigs.list
    /\ (~optionErr /\ ConfigPath = "" /\ GenericControllerAsConfigFn # "nil") =>
         /\ loaded = {"fn"}
         /\ newPc = (IF fnConfigs.err THEN "failed" ELSE "constructed")
         /\ newPc = "constructed" => configs = fnConfigs.list
    /\ (ConfigPath = "" /\ GenericControllerAsConfigFn = "nil") =>
         /\ loaded = {}
         /\ newPc = "failed"

\* C12 witness: a supervisor constructed with a path and a function that
\* would have returned other definitions holds those of the path.
ConstructedFromPath ==
  /\ newPc = "constructed"
  /\ ConfigPath # ""
  /\ GenericControllerAsConfigFn = "fn"
  /\ ~fnConfigs.err
  /\ fnConfigs.list # pathConfigs.list
  /\ configs = pathConfigs.list
  /\ configs # <<>>

\* C13: the Config supervisor loads its definitions on Start and not
\* before: until Start has been called no definition source has been
\* invoked, and once it has been called one has.
LoadsOnStart ==
  mode = "config" =>
    /\ waitPc = "idle" => loaded = {}
    /\ waitPc # "idle" => loaded # {}

\* C14: in Config mode, once the wait loop has completed, no step adds,
\* replaces or removes an entry of the map, constructs a controller or
\* changes the configured definitions; Stop only stops what is recorded.
StaticAfterStartup ==
  [][(mode = "config" /\ waitPc = "succeeded") =>
       /\ WatchControllers' = WatchControllers
       /\ configs' = configs
       /\ Len(wcs') = Len(wcs)
       /\ \A i \in 1..Len(wcs) :
            /\ wcs'[i].key = wcs[i].key
            /\ wcs'[i].spec = wcs[i].spec
       /\ waitPc' = "succeeded"
    ]_vars

\* C14 witness: Stop has returned after a successful startup and the map
\* still holds the controllers of both configured keys, stopped.
StoppedAfterStartup ==
  /\ mode = "config"
  /\ waitPc = "succeeded"
  /\ stopPc = "returned"
  /\ \A k \in Keys :
       /\ WatchControllers[k] # NoWC
       /\ wcs[WatchControllers[k]].state = "stopped"

\* The worker holds a key it got from the queue and has not marked Done.
WorkerHoldsKey ==
  workerPc \in {"sync", "stopgone", "stopold", "construct", "start", "finish",
                "done"}

\* C15: the CRD worker marks every key it dequeued Done once, after its
\* sync: the key is in processing exactly while the worker holds it.  After
\* an error the failure is counted and the key is added again after its
\* delay (the queue drops the add when it is shutting down); after a success
\* the failures are forgotten and the worker adds nothing: Done queues the
\* key only if an Add marked it dirty during the sync.
DoneOnceRequeueOnError ==
  [][/\ (workerPc = "finish" /\ workerPc' # "finish") =>
          /\ workerPc' = "done"
          /\ UNCHANGED <<queue, dirty, processing>>
          /\ IF workerErr # "nil"
             THEN /\ workerKey \in backoff'
                  /\ waiting' = IF shuttingDown THEN waiting
                                ELSE waiting \cup {workerKey}
             ELSE /\ workerKey \notin backoff'
                  /\ waiting' = waiting
     /\ (workerPc = "done" /\ workerPc' # "done") =>
          /\ processing = {workerKey}
          /\ processing' = {}
          /\ queue' = IF workerKey \in dirty THEN Append(queue, workerKey)
                      ELSE queue
          /\ UNCHANGED <<dirty, waiting, backoff>>
     /\ processing' = (IF WorkerHoldsKey' THEN {workerKey'} ELSE {})
    ]_vars

\* C15 witness: a key whose sync failed is Done, counted as failed and
\* waiting to be added again, while the worker is back at Get.
RequeuedAfterError ==
  /\ workerPc = "get"
  /\ processing = {}
  /\ ~shuttingDown
  /\ waiting \cap backoff # {}

\* The goroutine of Start is alive: it can read and write the map.
LoopMayAccessMap ==
  IF mode = "crd"
  THEN workerPc \notin {"idle", "exited"}
  ELSE waitPc \in {"begin", "cond", "start", "check", "sleep"}

\* Stop ranges over the map and its goroutines stop what it found there.
StopReadsMap == stopPc = "children"

\* A step of the goroutine of Start at a place where it writes the map.
LoopStepAtMap ==
  \/ workerPc \in {"stopgone", "stopold", "start"} /\ workerPc' # workerPc
  \/ waitPc = "start" /\ waitPc' # waitPc

\* C16: the map of a supervisor is never accessed by two threads at once:
\* only steps of the goroutine of Start change it (the event handlers only
\* enqueue), and Stop reads it only when that goroutine has ended.
MapAccessedByOneThread ==
  [][/\ WatchControllers' # WatchControllers => LoopStepAtMap
     /\ ~(StopReadsMap /\ LoopMayAccessMap)'
    ]_vars

\* C16 witness: Stop of a CRD supervisor reads a map that holds a running
\* controller, after the worker has ended, with a handler of the informer
\* still to run.
StopReadsAfterWorkerEnded ==
  /\ mode = "crd"
  /\ StopReadsMap
  /\ workerPc = "exited"
  /\ notifications # <<>>
  /\ \E k \in Keys :
       /\ WatchControllers[k] # NoWC
       /\ wcs[WatchControllers[k]].state = "running"

\* The definition the range loop of startAllWatchControllers is at cannot
\* be constructed, and its key is not in the map.
ConstructionFails ==
  /\ waitPc = "cond"
  /\ idx <= Len(configs)
  /\ WatchControllers[configs[idx].key] = NoWC
  /\ ~CanConstruct(configs[idx].spec)

\* C17: a pass of the Config wait loop attempts only the definitions whose
\* key is not in the map, so no key gets a second controller and a started
\* controller is not started again; a failed construction ends the pass at
\* once with an error, the recorded entries as they were and the later
\* definitions unattempted until the next pass starts from the first one.
PassAttemptsOnlyMissing ==
  [][/\ Len(wcs') > Len(wcs) =>
          /\ waitPc = "cond"
          /\ WatchControllers[configs[idx].key] = NoWC
          /\ wcs'[Len(wcs')].key = configs[idx].key
          /\ \A i \in DOMAIN wcs : wcs[i].key # configs[idx].key
     /\ \A i \in DOMAIN wcs :
          wcs[i].state = "running" => wcs'[i].state \in {"running", "stopped"}
     /\ (ConstructionFails /\ <<waitPc, idx>>' # <<waitPc, idx>>) =>
          /\ waitPc' = "check"
          /\ condErr' = "err"
          /\ idx' = idx
          /\ UNCHANGED <<WatchControllers, wcs>>
     /\ waitPc \in {"check", "sleep"} =>
          /\ UNCHANGED <<WatchControllers, wcs>>
          /\ idx' = idx \/ (waitPc = "sleep" /\ waitPc' = "cond" /\ idx' = 1)
    ]_vars

\* C17 witness: of three definitions, the first was started in an earlier
\* pass; the running pass, a later one, has found its key in the map and
\* gone past it (skipped) without a second controller, and has ended with
\* an error at the second, whose construction fails; the third has the key
\* of the second and a spec that can be constructed, so the empty map entry
\* of that key shows that no pass has attempted it.
LaterPassEndedAtFailure ==
  /\ mode = "config"
  /\ waitPc = "check"
  /\ condErr = "err"
  /\ passes >= 2
  /\ skipped = 1
  /\ Len(configs) = 3
  /\ idx = 2
  /\ configs[1].key # configs[2].key
  /\ WatchControllers[configs[1].key] # NoWC
  /\ wcs[WatchControllers[configs[1].key]].state = "running"
  /\ wcs = <<[key |-> configs[1].key, spec |-> configs[1].spec,
              state |-> "running"]>>
  /\ ~CanConstruct(configs[2].spec)
  /\ configs[3].key = configs[2].key
  /\ CanConstruct(configs[3].spec)
  /\ WatchControllers[configs[2].key] = NoWC

\* glog.Fatalf has ended the process.
ProcessTerminated == waitPc = "fatal"

\* C18: in CRD mode, when the stop signal comes before the informer cache
\* has synced, the goroutine of Start ends: it closes doneCh, has dequeued
\* no key and started no watch controller, does nothing afterwards, and the
\* process goes on.
UnsyncedStopEndsWorker ==
  [][/\ (workerPc = "cachesync" /\ ~hasSynced /\ workerPc' # "cachesync") =>
          /\ workerPc' = "exited"
          /\ doneCh' = "closed"
          /\ wcs = <<>> /\ processing = {}
          /\ UNCHANGED <<queue, dirty, processing, wcs, WatchControllers>>
          /\ ~ProcessTerminated'
     /\ workerPc = "exited" =>
          /\ workerPc' = "exited"
          /\ Len(wcs') = Len(wcs)
          /\ UNCHANGED <<processing, WatchControllers, doneCh>>
          /\ Len(queue') >= Len(queue)
          /\ SubSeq(queue', 1, Len(queue)) = queue
    ]_vars

\* C18 witness: Stop has returned from a supervisor whose cache never
\* synced; the keys the informer had enqueued are still in the queue.
StoppedBeforeSync ==
  /\ mode = "crd"
  /\ ~hasSynced
  /\ workerPc = "exited"
  /\ doneCh = "closed"
  /\ stopPc = "returned"
  /\ queue # <<>>
  /\ wcs = <<>>

\* C19: after Start, a Stop of the CRD supervisor eventually returns: the
\* queue is shut down, Get returns quit to the worker once the queue is
\* empty, the goroutine closes doneCh, and the children are stopped and
\* joined.
StopEventuallyReturns == (stopPc # "none") ~> (stopPc = "returned")

\* C19 witness: Stop has returned from a synced supervisor whose worker left
\* through the quit of Get, with a child stopped by Stop.
StopReturnedAfterQuit ==
  /\ mode = "crd"
  /\ stopPc = "returned"
  /\ hasSynced
  /\ shuttingDown
  /\ workerPc = "exited"
  /\ queue = <<>>
  /\ \E k \in Keys :
       /\ WatchControllers[k] # NoWC
       /\ wcs[WatchControllers[k]].state = "stopped"

\* The key has no watch controller: none in the map and none running.
NoControllerFor(k) ==
  /\ WatchControllers[k] = NoWC
  /\ \A i \in DOMAIN wcs : wcs[i].key = k => wcs[i].state # "running"

\* C20: in the CRD supervisor the old controller of a changed definition is
\* stopped and removed before the replacement is constructed; when that
\* construction fails the sync returns the error with no controller for the
\* key, the key is requeued, and only a sync that succeeds gives the key a
\* controller again.
FailedReplacementLeavesNone ==
  [][\A k \in Keys :
       /\ (workerPc = "stopold" /\ workerKey = k /\ workerPc' # "stopold") =>
            /\ workerPc' = "construct"
            /\ wcs'[WatchControllers[k]].state = "stopped"
            /\ NoControllerFor(k)'
       /\ (workerPc = "construct" /\ workerKey = k /\ ~CanConstruct(workerCtrl)
             /\ workerPc' # "construct") =>
            /\ workerPc' = "finish"
            /\ workerErr' = "err"
            /\ NoControllerFor(k)'
       /\ (workerPc = "finish" /\ workerKey = k /\ workerErr = "err"
             /\ workerPc' # "finish") =>
            /\ NoControllerFor(k)'
            /\ shuttingDown \/ k \in waiting'
       /\ (NoControllerFor(k) /\ ~NoControllerFor(k)') =>
            /\ workerPc = "start" /\ workerKey = k
            /\ workerPc' = "finish" /\ workerErr' = "nil"
    ]_vars

\* C20 witness: the sync of a changed definition has returned an error; the
\* controller of the old spec is stopped and the key has none.
ReplacementFailed ==
  /\ mode = "crd"
  /\ workerPc = "finish"
  /\ workerErr = "err"
  /\ NoControllerFor(workerKey)
  /\ \E i \in DOMAIN wcs :
       /\ wcs[i].key = workerKey
       /\ wcs[i].state = "stopped"
       /\ ~SemanticDeepEqual(workerCtrl, wcs[i].spec)

\* The number of times a key is in the queue.
RECURSIVE Occurrences(_, _)
Occurrences(q, k) ==
  IF q = <<>> THEN 0
  ELSE (IF Head(q) = k THEN 1 ELSE 0) + Occurrences(Tail(q), k)

\* C21: in the CRD supervisor an event for a key that the worker is syncing
\* is not lost and is not handed out during that sync: its handler marks the
\* key once, however many events arrive, Done puts the key in the queue once,
\* the key leaves the queue only when the worker takes it for its next sync,
\* and that sync reads the definition the lister holds then.  The handler of
\* an event that runs after Stop has shut the queue down adds nothing.
EventsDuringSyncCollapse ==
  [][\A k \in Keys :
       /\ (/\ notifications # <<>>
           /\ Head(notifications) = k
           /\ notifications' = Tail(notifications)
           /\ k \in processing
           /\ ~shuttingDown) =>
            /\ k \in dirty'
            /\ queue' = queue
            /\ processing' = processing
       /\ (k \in processing)' => Occurrences(queue', k) = 0
       /\ Occurrences(queue', k) <= 1
       /\ (workerPc = "done" /\ workerKey = k /\ k \in dirty
             /\ workerPc' # "done") =>
            /\ queue' = Append(queue, k)
            /\ k \in dirty' /\ k \notin processing'
       /\ (Occurrences(queue, k) = 1 /\ Occurrences(queue', k) = 0) =>
            /\ workerPc = "get" /\ workerPc' = "sync"
            /\ workerKey' = k /\ k \in processing' /\ k \notin dirty'
       /\ (workerPc = "sync" /\ workerKey = k /\ workerPc' # "sync") =>
            workerCtrl' = lister[k]
    ]_vars

\* C21 witness: three events for one key and the handler of each has run,
\* the later ones after the worker took the key; the sync has ended on the
\* definition it read, the key is marked and is not in the queue.
TwoEventsDuringSync ==
  /\ mode = "crd"
  /\ ~shuttingDown
  /\ events = 3
  /\ notifications = <<>>
  /\ workerPc = "finish"
  /\ workerKey \in dirty
  /\ workerKey \in processing
  /\ queue = <<>>
  /\ workerCtrl # lister[workerKey]
  /\ \A k \in Keys \ {workerKey} : lister[k] = NotFound /\ k \notin dirty

====
